---- MODULE Spec2Model ----
(***************************************************************************)
(* swimlib: the upgrade workflow of swimlib.f5.run.main and                *)
(* swimlib.netscaler.run.main, the F5 transfer / staging / activation      *)
(* actions they call, and the ASDB tracker client they report to.          *)
(*                                                                         *)
(* One behaviour is one process execution (or one direct call of an action *)
(* function, as the unit tests make).  Every remote command is one step;   *)
(* its outcome is chosen by the device.  An except-block runs in the same  *)
(* step as the failure that enters it.                                     *)
(***************************************************************************)
EXTENDS Integers, Sequences, FiniteSets, TLC

\* ------------------------------------------------------------------ bounds
MaxArtifacts == 2
MaxFreeGb == 6

\* --------------------------------------------------------- program values
Absent == "<absent>"            \* a key that is missing from a dict
NoFile == -1                    \* no file at a remote path
Junk == 0                       \* file content that is no genuine image
NoValue == -1                   \* a command whose output carries no value read

MinGbF5 == 5
MinGbNs == 3

Mains == {"f5_main", "ns_main"}

\* Direct calls of the action functions with a connected client: the F5 ones
\* (swimlib.f5.actions) and the ones of swimlib.image_copy / swimlib.image_stage.
TransferCalls == {"f5_transfer", "top_transfer"}
StageCalls == {"f5_stage", "top_stage"}
UpgradeCalls == {"f5_upgrade"}
TopLevel == {"top_transfer", "top_stage"}

\* Direct calls of the terminal methods of a tracker client built with a device
\* context: resolve_execution, pass_device_execution, fail_device_execution.
TrackerCalls == {"asdb_resolve", "asdb_pass", "asdb_fail"}
Entries == Mains \cup TransferCalls \cup StageCalls \cup UpgradeCalls \cup TrackerCalls

ExecutionTypes ==
  {"dry_run", "image_copy", "image_stage", "image_upgrade",
   "copy", "stage", "upgrade", "bogus", "DRY_RUN", Absent}

PreValStatus == {"pass", "fail", "fail_auth", "image_missing", "disk_full"}

Versions == {"17.1.1", "21.0.0", ""}
Volumes == {"HD1.1", "HD1.2", ""}

\* target_version of the catalog entry: the F5 software matrix, and the fixed
\* entry the NetScaler placeholder returns
F5TargetVersion == "21.0.0"
NsTargetVersion == "14.1-25.109"
CatalogVersion(e) == IF e = "ns_main" THEN NsTargetVersion ELSE F5TargetVersion

\* remote_folder of the catalog entry
CatalogFolder(e) == IF e = "ns_main" THEN "/var/nsinstall/" ELSE "/shared/images/"

\* The tracker client the run modules build at import: ASDBClient() with no
\* device, so its device context is the empty dict.
AsdbDevice ==
  [execution_type |-> Absent, execution_log_id |-> Absent, device_name |-> Absent]

VARIABLES
  entry,      \* which entry point this behaviour executes
  retry,      \* whether the call in progress is the caller's second call of the transfer
  optimize,   \* whether the interpreter runs with -O (assert statements removed)
  client,     \* the device context of the ASDBClient in use (self.device)
  env,        \* what the software lookup finds: [in_matrix, missing local files]
  catalog,    \* number of artifacts of the catalog entry of the device's model
  device,     \* the device context dict of main (execution_type, target_version,
              \* artifacts, remote_folder)
  pc,         \* position of the process
  idx,        \* loop index of the artifact loop in progress
  session,    \* the SSH client: "none", "open", "closed"
  sftp,       \* the SFTP channel of sftp_copy_artifacts: "none", "open", "closed"
  remote,     \* device: content of the file at each artifact's remote path
  remote0,    \* content of those files when the call in progress started
  seen,       \* per artifact, what the skip test of the transfer found
  volume,     \* target_volume of stage_artifacts / run_image_upgrade / upgrade_to_volume
  cmds,       \* every remote operation issued (by the call in progress), in order
  phases,     \* the step functions called (by the call in progress), in order
  failed,     \* the step whose failure entered an except-block ("none" before)
  error,      \* the exception that step raised: [kind, art]
  tracker     \* every request made to the tracker, in order

vars == <<entry, retry, optimize, client, env, catalog, device, pc, idx, session, sftp, remote, remote0, seen, volume,
          cmds, phases, failed, error, tracker>>

NoError == [kind |-> "none", art |-> 0]
Exc(kind, art) == [kind |-> kind, art |-> art]

\* ------------------------------------------------------------ pure helpers
\* md5sum of a file content: a digest, distinct for the contents modelled.
Md5(c) == (c * 31 + 7) % 256

\* Artifact i of the catalog entry: local file i, remote path i, md5 of image i.
LocalContent(i) == i
ExpectedMd5(i) == Md5(i)

ArtifactList(n) == [i \in 1..n |-> i]

\* main: execution_type = device.get("execution_type", "dry_run")
MainExecutionType(d) ==
  IF d.execution_type = Absent THEN "dry_run" ELSE d.execution_type

\* (C22) a comparison that is case-sensitive
Lower_Identity(s) == s

\* str.lower() on the values modelled
Lower(s) == IF s = "DRY_RUN" THEN "dry_run" ELSE s

\* ------------------------------------------------------- tracker (asdb.py)
\* The tracker's view of a run is the sequence of requests made to it.
Req(call, val) == [call |-> call, val |-> val]

\* ASDBClient.update_execution_log_status
UpdateExecutionLogStatus(t, status) == Append(t, Req("status", status))

\* ASDBClient.send_log: no request without an execution_log_id
SendLog(dev, t, level) ==
  IF dev.execution_log_id = Absent THEN t ELSE Append(t, Req("log", level))

\* ASDBClient.pre_validation_status(conn_status): no request without a device_name
PreValidationStatus(dev, t, conn_status) ==
  IF dev.device_name = Absent THEN t ELSE Append(t, Req("conn", conn_status))

\* (C25) a history record for every execution type
SendDeviceHistory_Always(dev, t, status) == Append(t, Req("history", status))

\* ASDBClient.send_device_history: skipped for execution_type dry_run
SendDeviceHistory(dev, t, status) ==
  IF dev.execution_type = "dry_run" THEN t ELSE Append(t, Req("history", status))

\* (C38) a fail path that posts the history record before the log and the status
FailDeviceExecution_HistoryFirst(dev, t) ==
  LET t1 == SendLog(dev, SendDeviceHistory(dev, t, "failed"), "error")
  IN  [pc |-> "exit1",
       tracker |-> IF dev.execution_log_id # Absent
                   THEN UpdateExecutionLogStatus(t1, "failed") ELSE t1]

\* ASDBClient.fail_device_execution: log, status failed, history, sys.exit(1)
FailDeviceExecution(dev, t) ==
  LET t1 == SendLog(dev, t, "error")
      t2 == IF dev.execution_log_id # Absent
            THEN UpdateExecutionLogStatus(t1, "failed") ELSE t1
  IN  [pc |-> "exit1", tracker |-> SendDeviceHistory(dev, t2, "failed")]

\* ASDBClient.pass_device_execution: log, status, history, sys.exit(0)
PassDeviceExecution(dev, t, status) ==
  LET t1 == SendLog(dev, t, "info")
      t2 == IF dev.execution_log_id # Absent
            THEN UpdateExecutionLogStatus(t1, status) ELSE t1
  IN  [pc |-> "exit0", tracker |-> SendDeviceHistory(dev, t2, status)]

\* ASDBClient.resolve_execution
ResolveExecution(dev, t) ==
  LET exec_type == Lower(IF dev.execution_type = Absent THEN "" ELSE dev.execution_type)
  IN  IF exec_type = "dry_run"
      THEN PassDeviceExecution(dev, t, "completed")
      ELSE FailDeviceExecution(dev, t)

\* ------------------------------------------- except-blocks of the run modules
\* The handlers call asdb.pre_validation_status(device, PreValStatus.X): two
\* positional arguments for a method that declares one (conn_status).
HandlerCallArgs == 2
PreValidationStatusParams == 1

\* (C2) a handler that returns, so that main goes on
HandlerResult_Swallow(status, cont) == [pc |-> cont, tracker |-> tracker]

\* What an except-block of a step function of main leaves behind: the call of
\* pre_validation_status raises TypeError inside the handler, which nothing
\* catches; otherwise the status is sent and resolve_execution ends the process.
\* `cont` is where main would go on if the handler returned.
HandlerResult(status, cont) ==
  IF HandlerCallArgs # PreValidationStatusParams
  THEN [pc |-> "crashed", tracker |-> tracker]
  ELSE ResolveExecution(AsdbDevice, PreValidationStatus(AsdbDevice, tracker, status))

\* The exception that leaves an action function: swimlib.image_copy lets its own
\* two exception classes through and turns any other into ImageTransferError;
\* swimlib.image_stage turns any other than its own into ImageStagingError; the
\* F5 action functions catch nothing.
Wrap(e, kind) ==
  IF e = "top_transfer"
  THEN IF kind \in {"ImageTransferError", "ChecksumMismatchError"}
       THEN kind ELSE "ImageTransferError"
  ELSE IF e = "top_stage" THEN "ImageStagingError"
  ELSE kind

\* A step fails with the exception propagating to its except-block (a run of main)
\* or to the caller (a direct call of an action function).
Fail(step, exc, status, cont) ==
  /\ failed' = step
  /\ error' = Exc(Wrap(entry, exc.kind), exc.art)
  /\ IF entry \in Mains
     THEN LET r == HandlerResult(status, cont)
          IN  pc' = r.pc /\ tracker' = r.tracker
     ELSE pc' = "raised" /\ UNCHANGED tracker

\* ------------------------------------------------------------------- Init
\* Where each entry point starts.
StartPc(e) ==
  IF e \in Mains THEN "lookup"
  ELSE IF e \in TransferCalls THEN "copy"
  ELSE IF e \in StageCalls THEN "stage"
  ELSE IF e \in UpgradeCalls THEN "upgrade_reboot"
  ELSE e

\* The values a device JSON may carry in the fields the lookup fills in.
SuppliedVersion == "17.1.1"
SuppliedArtifacts == <<1>>
SuppliedFolder == "/var/tmp/in"

\* Execution types of the device context of a tracker client called directly.
ClientTypes == {"dry_run", "DRY_RUN", "image_upgrade", "bogus", Absent}

\* A run of main starts from the device JSON (its execution_type as given) with
\* no session; a direct call of an action function gets a connected client and
\* its arguments: an artifact list (transfer, staging), a target version
\* (staging), a volume (upgrade_to_volume).  The device holds, at each remote
\* path a transfer looks at, no file, a file that is not the image, or the image.
\* The run modules build their tracker client at import, ASDBClient(), before
\* main is called; a tracker client called directly was built with a device
\* context.  The F5 lookup finds the model in the matrix or not, and some set
\* of the entry's local files missing.
Init ==
  /\ entry \in Entries
  /\ retry = FALSE
  /\ client \in [execution_type : ClientTypes, execution_log_id : {Absent, "log-1"},
                 device_name : {Absent, "dev-1"}]
  /\ entry \notin TrackerCalls => client = AsdbDevice
  /\ optimize \in BOOLEAN
  \* the flag is drawn only where an assert statement is executed
  /\ entry \notin {"f5_main", "f5_transfer"} => optimize = FALSE
  /\ \E et \in ExecutionTypes, n \in 0..MaxArtifacts, tv \in Versions \ {""} :
       /\ catalog = IF entry = "ns_main" THEN 1
                    ELSE IF entry \in UpgradeCalls \cup TrackerCalls THEN 0 ELSE n
       /\ \E supplied \in BOOLEAN :
            device = [execution_type |-> IF entry \in Mains THEN et ELSE Absent,
                      target_version |-> IF entry \in StageCalls THEN tv
                                         ELSE IF entry \in Mains /\ supplied
                                         THEN SuppliedVersion ELSE Absent,
                      artifacts |-> IF entry \in Mains
                                    THEN (IF supplied THEN SuppliedArtifacts ELSE <<>>)
                                    ELSE ArtifactList(catalog),
                      remote_folder |-> IF entry \in Mains /\ supplied
                                        THEN SuppliedFolder ELSE Absent]
  /\ env \in [in_matrix : BOOLEAN, missing : SUBSET (1..MaxArtifacts)]
  /\ env.missing \subseteq 1..catalog
  /\ entry # "f5_main" => env = [in_matrix |-> TRUE, missing |-> {}]
  /\ pc = IF entry \in Mains \cup TrackerCalls THEN "asdb_init" ELSE StartPc(entry)
  /\ idx = 0
  /\ session = IF entry \in Mains \cup TrackerCalls THEN "none" ELSE "open"
  /\ sftp = "none"
  /\ remote \in [1..MaxArtifacts -> {NoFile, Junk} \cup 1..MaxArtifacts]
  /\ \A i \in 1..MaxArtifacts :
       IF i <= catalog /\ entry \in {"f5_main"} \cup TransferCalls
       THEN remote[i] \in {NoFile, Junk, LocalContent(i)}
       ELSE remote[i] = NoFile
  /\ remote0 = remote
  /\ seen = [i \in 1..MaxArtifacts |-> "none"]
  /\ volume \in Volumes \cup {Absent}
  /\ (volume # Absent) = (entry \in UpgradeCalls)
  /\ cmds = <<>>
  /\ phases = <<>>
  /\ failed = "none"
  /\ error = NoError
  /\ tracker = <<>>

\* ------------------------------------------------------- remote operations
\* Any remote operation may raise (the connection drops, the command cannot be
\* run).  That is also what it does on a client that was closed, unless the
\* client goes on accepting commands, as the client doubles of the unit tests
\* do: on a closed client both outcomes are kept.
\* One entry of the command log: the operation, the artifact and the volume
\* (or folder) it names, whether the SSH client was open when it was issued, and its result:
\* the answer of a version or slot query, "pending" for an install command until
\* its exit status has arrived, "sent" for the reboot command, whose status is
\* never read, "raise" for an operation that raised.  `val` is the number the
\* caller reads from the output: the digest md5sum printed, the gigabytes df
\* printed.
CmdVal(op, art, vol, res, val) ==
  [op |-> op, art |-> art, vol |-> vol, open |-> session = "open", res |-> res,
   val |-> val]

Cmd(op, art, vol, res) == CmdVal(op, art, vol, res, NoValue)

Issue(op, art, vol, res) == cmds' = Append(cmds, Cmd(op, art, vol, res))

IssueVal(op, art, vol, res, val) == cmds' = Append(cmds, CmdVal(op, art, vol, res, val))

Call(step) == phases' = Append(phases, step)

\* --------------------------------------------------------- main: the gates
\* (C21) a copy gate that also takes the values copy, stage and upgrade
CopyTypes_ShortNames == {"image_copy", "image_stage", "image_upgrade", "copy", "stage", "upgrade"}
CopyTypes == {"image_copy", "image_stage", "image_upgrade"}
\* (C1) a gate that lets image_copy through to staging
StageTypes_WithCopy == {"image_copy", "image_stage", "image_upgrade"}
StageTypes == {"image_stage", "image_upgrade"}
UpgradeTypes == {"image_upgrade"}

\* (C29) a main that reboots only when staging issued an install command
AfterStage_OnlyIfInstalled(t) ==
  IF t \in UpgradeTypes /\ (\E k \in 1..Len(cmds) : cmds[k].op = "install")
  THEN "upgrade" ELSE "done"

\* Where main goes after run_image_stage returned.
AfterStage(t) == IF t \in UpgradeTypes THEN "upgrade" ELSE "done"

\* Where main goes after run_image_copy returned.
AfterCopy(t) == IF t \in StageTypes THEN "stage" ELSE AfterStage(t)

\* (C19) a main that does not stop after the checks of a dry_run run
AfterPreval_NoDryRunStop(t) ==
  IF t \in CopyTypes \cup {"dry_run"} THEN "copy" ELSE AfterCopy(t)

\* (C20) a main that takes an undefined execution_type for the deepest one
AfterPreval_UndefinedAsUpgrade(t) ==
  IF t = "dry_run" THEN "done"
  ELSE IF t \in CopyTypes THEN "copy" ELSE "upgrade"

\* Where main goes after the pre-validation checks returned.
AfterPreval(t) ==
  IF t = "dry_run" THEN "done"
  ELSE IF t \in CopyTypes THEN "copy" ELSE AfterCopy(t)

\* Where control goes when a step function returns: on in main, or back to the
\* caller of a direct call.
Return(next) == IF entry \in Mains THEN next ELSE "returned"

ExecType == MainExecutionType(device)

\* ------------------------------------------------------ pre-validation steps
\* (C28) a lookup that does not look for the local files
GetTargetSoftware_NoFileCheck(inMatrix, filesExist) ==
  IF ~inMatrix THEN "SoftwareLookupException" ELSE "config"

\* get_target_software: the model must be in the matrix and every artifact's
\* local file must exist.
GetTargetSoftware(inMatrix, filesExist) ==
  IF ~inMatrix THEN "SoftwareLookupException"
  ELSE IF ~filesExist THEN "SoftwareLookupException"
  ELSE "config"

\* The NetScaler get_target_software is a placeholder that returns its fixed entry.
NsGetTargetSoftware == "config"

\* os.path.exists(artifact["local_path"]) for every artifact of an entry of n artifacts
FilesExist(n, missing) == \A i \in 1..n : i \notin missing

\* (C27) a lookup that fills in only the fields the input left out
DeviceAfterLookup_KeepInput(d, version, artifacts, folder) ==
  [d EXCEPT !.target_version = IF @ = Absent THEN version ELSE @,
            !.artifacts = IF @ = <<>> THEN artifacts ELSE @,
            !.remote_folder = IF @ = Absent THEN folder ELSE @]

\* device.update(config): the entry's fields replace those of the device context
DeviceAfterLookup(d, version, artifacts, folder) ==
  [d EXCEPT !.target_version = version, !.artifacts = artifacts,
            !.remote_folder = folder]

\* validate_target_software
Lookup ==
  /\ pc = "lookup"
  /\ Call("lookup")
  /\ IF (IF entry = "ns_main" THEN NsGetTargetSoftware
         ELSE GetTargetSoftware(env.in_matrix, FilesExist(catalog, env.missing))) = "config"
       THEN /\ device' = DeviceAfterLookup(device, CatalogVersion(entry),
                                           ArtifactList(catalog), CatalogFolder(entry))
            /\ pc' = "connect"
            /\ UNCHANGED <<failed, error, tracker>>
       ELSE /\ Fail("lookup", Exc("SoftwareLookupException", 0), "image_missing", "connect")
            /\ UNCHANGED device
  /\ UNCHANGED <<entry, retry, optimize, client, env, catalog, idx, session, sftp, remote, remote0, seen, volume, cmds>>

\* The client validate_remote_connection returns after a successful connect:
\* the F5 one returns from inside `with SSHConnection(...)`, so __exit__ has
\* closed it; the NetScaler one calls __enter__ alone.
SessionAfterConnect(e) == IF e = "f5_main" THEN "closed" ELSE "open"

\* validate_remote_connection
Connect ==
  /\ pc = "connect"
  /\ Call("connect")
  /\ \/ /\ session' = SessionAfterConnect(entry)
        /\ pc' = "disk_test"
        /\ UNCHANGED <<failed, error, tracker>>
     \/ /\ Fail("connect", Exc("SSHAuthError", 0), "fail_auth", "disk_test")
        /\ UNCHANGED session
     \/ /\ Fail("connect", Exc("Exception", 0), "fail", "disk_test")
        /\ UNCHANGED session
  /\ UNCHANGED <<entry, retry, optimize, client, env, catalog, device, idx, sftp, remote, remote0, seen, volume, cmds>>

MinGb(e) == IF e = "ns_main" THEN MinGbNs ELSE MinGbF5

\* The folder the step function passes to validate_remote_storage:
\* device.get("remote_folder", <default>)
StorageFolder(e, d) ==
  IF d.remote_folder # Absent THEN d.remote_folder
  ELSE IF e = "ns_main" THEN "/var/nsinstall" ELSE "/shared/images"

\* "/" + folder_path.lstrip("/").split("/")[0], on the folders modelled
MountPoint(folder) ==
  CASE folder \in {"/shared/images/", "/shared/images"} -> "/shared"
    [] folder \in {"/var/nsinstall/", "/var/nsinstall", "/var/tmp/in"} -> "/var"
    [] OTHER -> "/"

\* validate_remote_storage, first command: test -d <folder> && echo exists
DiskTest ==
  /\ pc = "disk_test"
  /\ Call("disk")
  /\ \/ /\ Issue("test_dir", 0, StorageFolder(entry, device), "exists")
        /\ pc' = "disk_df"
        /\ UNCHANGED <<failed, error, tracker>>
     \/ /\ Issue("test_dir", 0, StorageFolder(entry, device), "missing")
        /\ Fail("disk", Exc("RemoteStorageError", 0), "disk_full", AfterPreval(ExecType))
     \/ /\ Issue("test_dir", 0, StorageFolder(entry, device), "raise")
        /\ Fail("disk", Exc("Exception", 0), "disk_full", AfterPreval(ExecType))
  /\ UNCHANGED <<entry, retry, optimize, client, env, catalog, device, idx, session, sftp, remote, remote0, seen, volume>>

\* (C37) a free-space test that wants more than the minimum
EnoughSpace_Strict(empty, gb, min_gb) == ~empty /\ gb > min_gb

\* The free-space test of validate_remote_storage on the df output.
EnoughSpace(empty, gb, min_gb) == ~empty /\ ~(gb < min_gb)

\* The mount point the df command names.
DfMount == MountPoint(StorageFolder(entry, device))

\* validate_remote_storage, second command: df -BG <mount point>
DiskDf ==
  /\ pc = "disk_df"
  /\ \/ \E empty \in BOOLEAN, gb \in 0..MaxFreeGb :
          /\ IF empty THEN Issue("df", 0, DfMount, "empty")
             ELSE IssueVal("df", 0, DfMount, "ok", gb)
          /\ IF EnoughSpace(empty, gb, MinGb(entry))
             THEN /\ pc' = AfterPreval(ExecType)
                  /\ UNCHANGED <<failed, error, tracker>>
             ELSE Fail("disk", Exc("RemoteStorageError", 0), "disk_full", AfterPreval(ExecType))
     \/ /\ Issue("df", 0, DfMount, "raise")
        /\ Fail("disk", Exc("Exception", 0), "disk_full", AfterPreval(ExecType))
  /\ UNCHANGED <<entry, retry, optimize, client, env, catalog, device, idx, session, sftp, remote, remote0, seen, volume, phases>>

\* ------------------------------- NetScaler: the placeholder step functions
NsImageCopy ==
  /\ entry = "ns_main" /\ pc = "copy"
  /\ Call("transfer")
  /\ pc' = AfterCopy(ExecType)
  /\ UNCHANGED <<entry, retry, optimize, client, env, catalog, device, idx, session, sftp, remote, remote0, seen, volume,
                 cmds, failed, error, tracker>>

NsImageStage ==
  /\ entry = "ns_main" /\ pc = "stage"
  /\ Call("staging")
  /\ pc' = AfterStage(ExecType)
  /\ UNCHANGED <<entry, retry, optimize, client, env, catalog, device, idx, session, sftp, remote, remote0, seen, volume,
                 cmds, failed, error, tracker>>

NsImageUpgrade ==
  /\ entry = "ns_main" /\ pc = "upgrade"
  /\ Call("activation")
  /\ pc' = "done"
  /\ UNCHANGED <<entry, retry, optimize, client, env, catalog, device, idx, session, sftp, remote, remote0, seen, volume,
                 cmds, failed, error, tracker>>

\* ------------------------------ transfer: sftp_copy_artifacts
TransferEntries == {"f5_main"} \cup TransferCalls
StageEntries == {"f5_main"} \cup StageCalls

NArtifacts == Len(device.artifacts)

\* The head of `for artifact in artifacts`: the body for artifact i, or the
\* statement after the loop.
LoopPc(i, n, body, after) == IF i <= n THEN body ELSE after

\* compute_remote_md5: the first word of the md5sum output for the file
RemoteMd5(i) == Md5(remote[i])

\* (C9) a skip test that never skips
SkipIfValid_Never(remote_md5, expected_md5) == FALSE

\* The skip test: compute_remote_md5(...) == expected_md5
SkipIfValid(remote_md5, expected_md5) == remote_md5 = expected_md5

\* The check after the transfer: assert remote_md5 == expected_md5
PostCheck(remote_md5, expected_md5) == remote_md5 = expected_md5

\* compute_remote_md5 on an empty md5sum output: swimlib.image_copy raises its
\* ChecksumMismatchError, the F5 one fails on output.split()[0].
Md5EmptyError(e) == IF e = "top_transfer" THEN "ChecksumMismatchError" ELSE "IndexError"

\* (C34) both transfers raise on a file whose checksum is not the expected one
PreMismatchError_Raise(e) == "ChecksumMismatchError"

\* (C35) both transfers go on to write over such a file
PreMismatchError_Overwrite(e) == "none"

\* A file found at the remote path whose checksum is not the expected one:
\* the F5 transfer goes on to write it, swimlib.image_copy raises.
PreMismatchError(e) == IF e = "top_transfer" THEN "ChecksumMismatchError" ELSE "none"

\* What the check after the transfer raises: swimlib.image_copy tests the
\* checksum with `if` and raises ChecksumMismatchError; the F5 transfer tests it
\* with an assert statement, which raises AssertionError and which python -O
\* removes.
PostCheckError(e, opt, remote_md5, expected_md5) ==
  IF PostCheck(remote_md5, expected_md5) THEN "none"
  ELSE IF e = "top_transfer" THEN "ChecksumMismatchError"
  ELSE IF opt THEN "none"
  ELSE "AssertionError"

\* (C10) a transfer that goes on to the next artifact without verifying
AfterPut_NoVerify(i, n) ==
  [pc |-> LoopPc(i + 1, n, "copy_stat", "copy_close"), idx |-> i + 1]

\* (C26) a transfer that writes the artifact again
AfterPut_Again(i, n) == [pc |-> "copy_put", idx |-> i]

\* After sftp.put returned: the remote checksum is computed next, for the same artifact.
AfterPut(i, n) == [pc |-> "copy_md5post", idx |-> i]

\* run_image_copy calls sftp_copy_artifacts, which starts with ssh_client.open_sftp()
CopyOpen ==
  /\ entry \in TransferEntries /\ pc = "copy"
  /\ Call("transfer")
  /\ \/ /\ Issue("open_sftp", 0, "", "ok")
        /\ sftp' = "open"
        /\ idx' = 1
        /\ pc' = LoopPc(1, NArtifacts, "copy_stat", "copy_close")
        /\ UNCHANGED <<failed, error, tracker>>
     \/ /\ Issue("open_sftp", 0, "", "raise")
        /\ Fail("transfer", Exc("Exception", 0), "fail", AfterCopy(ExecType))
        /\ UNCHANGED <<sftp, idx>>
  /\ UNCHANGED <<entry, retry, optimize, client, env, catalog, device, session, remote, remote0, seen, volume>>

\* sftp.stat(remote_path): FileNotFoundError is caught and leads to the transfer;
\* any other error leaves the function.
CopyStat ==
  /\ pc = "copy_stat"
  /\ \/ /\ remote[idx] = NoFile
        /\ Issue("stat", idx, "", "absent")
        /\ seen' = [seen EXCEPT ![idx] = "absent"]
        /\ pc' = "copy_put"
        /\ UNCHANGED <<failed, error, tracker>>
     \/ /\ remote[idx] # NoFile
        /\ Issue("stat", idx, "", "ok")
        /\ pc' = "copy_md5pre"
        /\ UNCHANGED <<seen, failed, error, tracker>>
     \/ /\ Issue("stat", idx, "", "raise")
        /\ Fail("transfer", Exc("Exception", idx), "fail", AfterCopy(ExecType))
        /\ UNCHANGED seen
  /\ UNCHANGED <<entry, retry, optimize, client, env, catalog, device, idx, session, sftp, remote, remote0, volume, phases>>

\* compute_remote_md5 of the file found, and the skip test on it
CopyMd5Pre ==
  /\ pc = "copy_md5pre"
  /\ \/ /\ IssueVal("md5", idx, "", "ok", RemoteMd5(idx))
        /\ IF SkipIfValid(RemoteMd5(idx), ExpectedMd5(idx))
           THEN /\ seen' = [seen EXCEPT ![idx] = "match"]
                /\ idx' = idx + 1
                /\ pc' = LoopPc(idx + 1, NArtifacts, "copy_stat", "copy_close")
                /\ UNCHANGED <<failed, error, tracker>>
           ELSE /\ seen' = [seen EXCEPT ![idx] = "mismatch"]
                /\ idx' = idx
                /\ IF PreMismatchError(entry) = "none"
                   THEN pc' = "copy_put" /\ UNCHANGED <<failed, error, tracker>>
                   ELSE Fail("transfer", Exc(PreMismatchError(entry), idx), "fail",
                             AfterCopy(ExecType))
     \/ /\ Issue("md5", idx, "", "empty")
        /\ Fail("transfer", Exc(Md5EmptyError(entry), idx), "fail", AfterCopy(ExecType))
        /\ UNCHANGED <<seen, idx>>
     \/ /\ Issue("md5", idx, "", "raise")
        /\ Fail("transfer", Exc("Exception", idx), "fail", AfterCopy(ExecType))
        /\ UNCHANGED <<seen, idx>>
  /\ UNCHANGED <<entry, retry, optimize, client, env, catalog, device, session, sftp, remote, remote0, volume, phases>>

\* sftp.put(local_path, remote_path): the file arrives whole or damaged, or the
\* transfer raises, leaving the old file or a partial one.
CopyPut ==
  /\ pc = "copy_put"
  /\ \/ /\ Issue("put", idx, "", "ok")
        /\ \E c \in {LocalContent(idx), Junk} : remote' = [remote EXCEPT ![idx] = c]
        /\ pc' = AfterPut(idx, NArtifacts).pc
        /\ idx' = AfterPut(idx, NArtifacts).idx
        /\ UNCHANGED <<failed, error, tracker>>
     \/ /\ Issue("put", idx, "", "raise")
        /\ \E c \in {remote[idx], Junk} : remote' = [remote EXCEPT ![idx] = c]
        /\ Fail("transfer", Exc("Exception", idx), "fail", AfterCopy(ExecType))
        /\ UNCHANGED idx
  /\ UNCHANGED <<entry, retry, optimize, client, env, catalog, device, session, sftp, remote0, seen, volume, phases>>

\* compute_remote_md5 after the transfer, and the check on it
CopyMd5Post ==
  /\ pc = "copy_md5post"
  /\ \/ /\ IssueVal("md5", idx, "", "ok", RemoteMd5(idx))
        /\ LET err == PostCheckError(entry, optimize, RemoteMd5(idx), ExpectedMd5(idx))
           IN  IF err = "none"
               THEN /\ idx' = idx + 1
                    /\ pc' = LoopPc(idx + 1, NArtifacts, "copy_stat", "copy_close")
                    /\ UNCHANGED <<failed, error, tracker>>
               ELSE /\ Fail("transfer", Exc(err, idx), "fail", AfterCopy(ExecType))
                    /\ UNCHANGED idx
     \/ /\ Issue("md5", idx, "", "empty")
        /\ Fail("transfer", Exc(Md5EmptyError(entry), idx), "fail", AfterCopy(ExecType))
        /\ UNCHANGED idx
     \/ /\ Issue("md5", idx, "", "raise")
        /\ Fail("transfer", Exc("Exception", idx), "fail", AfterCopy(ExecType))
        /\ UNCHANGED idx
  /\ UNCHANGED <<entry, retry, optimize, client, env, catalog, device, session, sftp, remote, remote0, seen, volume, phases>>

\* sftp.close() after the loop, and the return to run_image_copy's caller
CopyClose ==
  /\ pc = "copy_close"
  /\ Issue("close_sftp", 0, "", "ok")
  /\ sftp' = "closed"
  /\ pc' = Return(AfterCopy(ExecType))
  /\ UNCHANGED <<entry, retry, optimize, client, env, catalog, device, idx, session, remote, remote0, seen, volume,
                 phases, failed, error, tracker>>

\* The caller of a transfer that returned calls it again with the same
\* arguments, the device's files being as the first call left them: the
\* retry of a run whose later phase failed.  The logs start again with the call.
CopyAgain ==
  /\ entry \in TransferCalls /\ pc = "returned" /\ ~retry
  /\ retry' = TRUE
  /\ pc' = StartPc(entry)
  /\ idx' = 0
  /\ sftp' = "none"
  /\ remote0' = remote
  /\ seen' = [i \in 1..MaxArtifacts |-> "none"]
  /\ cmds' = <<>>
  /\ phases' = <<>>
  /\ UNCHANGED <<entry, optimize, client, env, catalog, device, session, remote, volume,
                 failed, error, tracker>>

\* ------------------------------ staging: stage_artifacts
\* An empty answer to the version or the slot query: swimlib.image_stage raises
\* ImageStagingError, the F5 functions return the empty string.
EmptyAnswerError(e, answer) ==
  IF e = "top_stage" /\ answer = "" THEN "ImageStagingError" ELSE "none"

\* The exit status of an install command: swimlib.image_stage raises
\* ImageStagingError when it is not 0, the F5 stage_artifacts drops it.
ExitStatusError(e, status) ==
  IF e = "top_stage" /\ status # "exit0" THEN "ImageStagingError" ELSE "none"

\* (C12) a stage that never takes the early return
AlreadyOnTarget_Never(current, target) == FALSE

\* The early return of stage_artifacts: current version == target_version
AlreadyOnTarget(current, target) == current = target

\* run_image_stage calls stage_artifacts, which starts with get_current_version
\* and returns at once when it equals target_version.
StageVersion ==
  /\ entry \in StageEntries /\ pc = "stage"
  /\ Call("staging")
  /\ \/ \E v \in Versions :
          /\ Issue("version", 0, "", v)
          /\ IF EmptyAnswerError(entry, v) # "none"
             THEN Fail("staging", Exc(EmptyAnswerError(entry, v), 0), "fail",
                       AfterStage(ExecType))
             ELSE /\ pc' = IF AlreadyOnTarget(v, device.target_version)
                           THEN Return(AfterStage(ExecType)) ELSE "stage_slot"
                  /\ UNCHANGED <<failed, error, tracker>>
     \/ /\ Issue("version", 0, "", "raise")
        /\ Fail("staging", Exc("Exception", 0), "fail", AfterStage(ExecType))
  /\ UNCHANGED <<entry, retry, optimize, client, env, catalog, device, idx, session, sftp, remote, remote0, seen, volume>>

\* get_target_volume: the first volume not marked active, or the empty string
StageSlot ==
  /\ pc = "stage_slot"
  /\ \/ \E v \in Volumes :
          /\ Issue("slot", 0, "", v)
          /\ IF EmptyAnswerError(entry, v) # "none"
             THEN /\ Fail("staging", Exc(EmptyAnswerError(entry, v), 0), "fail",
                          AfterStage(ExecType))
                  /\ UNCHANGED <<volume, idx>>
             ELSE /\ volume' = v
                  /\ idx' = 1
                  /\ pc' = LoopPc(1, NArtifacts, "stage_install",
                                  Return(AfterStage(ExecType)))
                  /\ UNCHANGED <<failed, error, tracker>>
     \/ /\ Issue("slot", 0, "", "raise")
        /\ Fail("staging", Exc("Exception", 0), "fail", AfterStage(ExecType))
        /\ UNCHANGED <<volume, idx>>
  /\ UNCHANGED <<entry, retry, optimize, client, env, catalog, device, session, sftp, remote, remote0, seen, phases>>

\* (C16) an install loop that does not wait for the exit status
AfterExec_NoWait(i, n) ==
  [pc |-> LoopPc(i + 1, n, "stage_install", Return(AfterStage(ExecType))), idx |-> i + 1]

\* After exec_command of the install command returned: recv_exit_status() is
\* called on its channel, for the same artifact.
AfterExec(i, n) == [pc |-> "stage_wait", idx |-> i]

\* (C39) an install loop that goes on waiting once the exit status has arrived
AfterInstall_Wait(i, n) == [pc |-> "stage_wait", idx |-> i]

\* (C13) an install loop that leaves out the artifact after this one
AfterInstall_SkipNext(i, n) ==
  [pc |-> LoopPc(i + 2, n, "stage_install", Return(AfterStage(ExecType))), idx |-> i + 2]

\* After the exit status arrived: the next artifact of the list, or the return.
AfterInstall(i, n) ==
  [pc |-> LoopPc(i + 1, n, "stage_install", Return(AfterStage(ExecType))), idx |-> i + 1]

\* exec_command("tmsh install sys software image <remote_path> volume <target_volume>")
StageInstall ==
  /\ pc = "stage_install"
  /\ \/ /\ Issue("install", idx, volume, "pending")
        /\ pc' = AfterExec(idx, NArtifacts).pc
        /\ idx' = AfterExec(idx, NArtifacts).idx
        /\ UNCHANGED <<failed, error, tracker>>
     \/ /\ Issue("install", idx, volume, "raise")
        /\ Fail("staging", Exc("Exception", idx), "fail", AfterStage(ExecType))
        /\ UNCHANGED idx
  /\ UNCHANGED <<entry, retry, optimize, client, env, catalog, device, session, sftp, remote, remote0, seen, volume, phases>>

\* stdout.channel.recv_exit_status(): blocks until the exit status of the
\* command issued last has arrived.
StageWait ==
  /\ pc = "stage_wait"
  /\ \E status \in {"exit0", "nonzero"} :
       /\ cmds' = [cmds EXCEPT ![Len(cmds)].res = status]
       /\ IF ExitStatusError(entry, status) = "none"
          THEN /\ pc' = AfterInstall(idx, NArtifacts).pc
               /\ idx' = AfterInstall(idx, NArtifacts).idx
               /\ UNCHANGED <<failed, error, tracker>>
          ELSE /\ Fail("staging", Exc(ExitStatusError(entry, status), idx), "fail",
                       AfterStage(ExecType))
               /\ UNCHANGED idx
  /\ UNCHANGED <<entry, retry, optimize, client, env, catalog, device, session, sftp, remote, remote0, seen, volume, phases>>

\* ------------------------------ F5 activation: run_image_upgrade
\* (C31) a reboot to the first volume, whatever the slot query answered
UpgradeVolume_First(queried, staged) == "HD1.1"

\* (C18) a reboot to the volume staging found
UpgradeVolume_Staged(queried, staged) == staged

\* The volume run_image_upgrade passes to upgrade_to_volume: the one its own
\* call of get_target_volume returned.
UpgradeVolume(queried, staged) == queried

\* get_target_volume, called again by run_image_upgrade
UpgradeSlot ==
  /\ entry = "f5_main" /\ pc = "upgrade"
  /\ Call("activation")
  /\ \/ \E v \in Volumes :
          /\ Issue("slot", 0, "", v)
          /\ volume' = UpgradeVolume(v, volume)
          /\ pc' = "upgrade_reboot"
          /\ UNCHANGED <<failed, error, tracker>>
     \/ /\ Issue("slot", 0, "", "raise")
        /\ Fail("activation", Exc("Exception", 0), "fail", "done")
        /\ UNCHANGED volume
  /\ UNCHANGED <<entry, retry, optimize, client, env, catalog, device, idx, session, sftp, remote, remote0, seen>>

\* (C17) an activation that waits for the exit status of the reboot command
AfterReboot_Await == "stage_wait"

\* After exec_command of the reboot command returned, upgrade_to_volume returns.
AfterReboot == Return("done")

\* upgrade_to_volume: exec_command("tmsh reboot volume <target_volume>")
UpgradeReboot ==
  /\ pc = "upgrade_reboot"
  /\ \/ /\ Issue("reboot", 0, volume, "sent")
        /\ pc' = AfterReboot
        /\ UNCHANGED <<failed, error, tracker>>
     \/ /\ Issue("reboot", 0, volume, "raise")
        /\ Fail("activation", Exc("Exception", 0), "fail", "done")
  /\ UNCHANGED <<entry, retry, optimize, client, env, catalog, device, idx, session, sftp, remote, remote0, seen, volume,
                 phases>>

\* ------------------------------------------------ tracker client: asdb.py
\* ASDBClient.__init__: with an execution_log_id in the device context, the
\* status inprogress is sent for it.
ClientInit(dev, t) ==
  IF dev.execution_log_id # Absent THEN UpdateExecutionLogStatus(t, "inprogress") ELSE t

\* The tracker client is built: at import of the run module, or by the caller
\* of a direct call.
AsdbInit ==
  /\ pc = "asdb_init"
  /\ tracker' = ClientInit(client, tracker)
  /\ pc' = StartPc(entry)
  /\ UNCHANGED <<entry, retry, optimize, client, env, catalog, device, idx, session, sftp, remote,
                 remote0, seen, volume, cmds, phases, failed, error>>

\* The status argument of pass_device_execution: its default, or one given.
PassStatuses == {"completed", "dry_run_passed"}

\* What a direct call of a terminal method does.
TrackerCallResult(e, dev, t, status) ==
  IF e = "asdb_resolve" THEN ResolveExecution(dev, t)
  ELSE IF e = "asdb_pass" THEN PassDeviceExecution(dev, t, status)
  ELSE FailDeviceExecution(dev, t)

\* resolve_execution / pass_device_execution / fail_device_execution called directly
TrackerCall ==
  /\ entry \in TrackerCalls /\ pc = entry
  /\ \E status \in PassStatuses :
       /\ entry # "asdb_pass" => status = "completed"
       /\ LET r == TrackerCallResult(entry, client, tracker, status)
          IN  pc' = r.pc /\ tracker' = r.tracker
  /\ UNCHANGED <<entry, retry, optimize, client, env, catalog, device, idx, session, sftp, remote,
                 remote0, seen, volume, cmds, phases, failed, error>>

\* ------------------------------------------------------------ specification
Next ==
  \/ AsdbInit \/ TrackerCall
  \/ Lookup \/ Connect \/ DiskTest \/ DiskDf
  \/ NsImageCopy \/ NsImageStage \/ NsImageUpgrade
  \/ CopyOpen \/ CopyStat \/ CopyMd5Pre \/ CopyPut \/ CopyMd5Post \/ CopyClose \/ CopyAgain
  \/ StageVersion \/ StageSlot \/ StageInstall \/ StageWait
  \/ UpgradeSlot \/ UpgradeReboot

Spec == Init /\ [][Next]_vars

\* Every remote command and every tracker call returns, and the interpreter
\* goes on to the next statement: a step that can be taken is taken.
LiveSpec == Spec /\ WF_vars(Next)

Terminal == pc \in {"done", "crashed", "exit0", "exit1", "returned", "raised"}

\* Nothing more happens: the process has ended, or the last call has ended.
Finished == Terminal /\ ~(entry \in TransferCalls /\ pc = "returned" /\ ~retry)

TypeOK ==
  /\ entry \in Entries
  /\ pc \in {"asdb_init", "asdb_resolve", "asdb_pass", "asdb_fail", "lookup", "connect", "disk_test", "disk_df", "copy", "copy_stat",
             "copy_md5pre", "copy_put", "copy_md5post", "copy_close", "stage",
             "stage_slot", "stage_install", "stage_wait", "upgrade", "upgrade_reboot",
             "done", "crashed", "exit0", "exit1", "returned", "raised"}
  /\ session \in {"none", "open", "closed"}
  /\ sftp \in {"none", "open", "closed"}
  /\ idx \in 0..(MaxArtifacts + 1)

\* ================================================================== claims
Invoked(step) == \E k \in 1..Len(phases) : phases[k] = step

CmdsWhere(op, i) == {k \in 1..Len(cmds) : cmds[k].op = op /\ cmds[k].art = i}
Puts(i) == Cardinality(CmdsWhere("put", i))
Md5s(i) == Cardinality(CmdsWhere("md5", i))

StatusReports(st) == {k \in 1..Len(tracker) : tracker[k] = Req("status", st)}
ConnReports == SelectSeq(tracker, LAMBDA r : r.call = "conn")

\* ---- C1
\* C1: in a run of main (F5 or NetScaler), execution_type image_copy never
\* invokes staging or activation and image_stage never invokes activation; a
\* run that returns from main with no step failed has invoked transfer for
\* image_copy, transfer and staging for image_stage, and transfer, staging and
\* activation for image_upgrade.
C1_DepthGatesPhases ==
  entry \in Mains =>
    /\ device.execution_type = "image_copy" =>
         ~Invoked("staging") /\ ~Invoked("activation")
    /\ device.execution_type = "image_stage" => ~Invoked("activation")
    /\ pc = "done" /\ device.execution_type = "image_copy" => Invoked("transfer")
    /\ pc = "done" /\ device.execution_type = "image_stage" =>
         Invoked("transfer") /\ Invoked("staging")
    /\ pc = "done" /\ device.execution_type = "image_upgrade" =>
         Invoked("transfer") /\ Invoked("staging") /\ Invoked("activation")

C1_Witness ==
  /\ entry \in Mains /\ pc = "done" /\ device.execution_type = "image_upgrade"
  /\ phases = <<"lookup", "connect", "disk", "transfer", "staging", "activation">>

\* ---- C2
StepOrder == <<"lookup", "connect", "disk", "transfer", "staging", "activation">>
Rank(step) == CHOOSE r \in 1..Len(StepOrder) : StepOrder[r] = step
LastRank(ph) == IF ph = <<>> THEN 0 ELSE Rank(ph[Len(ph)])

\* C2: steps are called in the order lookup, connect, disk check, transfer,
\* staging, activation; a run of main calls the three checks before any phase;
\* once a step has failed, no step is called and no remote operation is issued.
\* (The step in which a caller calls the transfer a second time starts the logs
\* again and is no step of a run.)
C2_OrderAndFailFast ==
  [][ /\ failed # "none" => cmds' = cmds /\ phases' = phases
      /\ phases' # phases /\ retry' = retry =>
           /\ failed = "none"
           /\ LastRank(phases') > LastRank(phases)
           /\ entry \in Mains /\ LastRank(phases') > 3 =>
                SubSeq(phases, 1, 3) = <<"lookup", "connect", "disk">>
    ]_vars

C2_Witness ==
  /\ entry \in Mains /\ Terminal /\ failed = "disk"
  /\ device.execution_type = "image_upgrade"
  /\ Len(cmds) = 2 /\ phases = <<"lookup", "connect", "disk">>

\* ---- C3
\* C3: a run of main in which a step failed ends through the reporting path,
\* not through an unhandled exception, with exactly one execution status
\* "failed" sent to the tracker.
C3_FailureReportedOnce ==
  entry \in Mains /\ failed # "none" /\ Terminal =>
    pc \in {"exit0", "exit1"} /\ Cardinality(StatusReports("failed")) = 1

\* ---- C4
\* C4: a run of main that ends in success (main returned) has sent the
\* execution status "completed" to the tracker.
C4_SuccessReported ==
  entry \in Mains /\ pc = "done" => StatusReports("completed") # {}

\* ---- C5
\* C5: every remote operation of a run of main is issued on an open session.
C5_CommandsOnOpenSession ==
  entry \in Mains => \A k \in 1..Len(cmds) : cmds[k].open

\* ---- C6
\* C6: when a run of main has ended, on whatever path, a session it opened is closed.
C6_SessionClosedAtExit ==
  entry \in Mains /\ Terminal /\ session # "none" => session = "closed"

\* ---- C7
\* C7: after an SSH authentication failure the run has ended with no remote
\* operation issued and the connectivity status fail_auth sent to the tracker.
C7_AuthFailureReported ==
  entry \in Mains /\ error.kind = "SSHAuthError" =>
    /\ Terminal
    /\ cmds = <<>>
    /\ ConnReports = <<Req("conn", "fail_auth")>>

\* ---- C8
\* The classification the claim gives each failure cause.
ClaimedClass(step, exc) ==
  CASE step = "lookup" -> "image_missing"
    [] step = "connect" /\ exc.kind = "SSHAuthError" -> "fail_auth"
    [] step = "connect" /\ exc.kind # "SSHAuthError" -> "fail"
    [] step = "disk" -> "disk_full"
    [] OTHER -> "fail"

\* C8: every failed run of main has sent exactly one connectivity status to the
\* tracker, the one classifying its failure cause.
C8_OneClassification ==
  entry \in Mains /\ failed # "none" =>
    ConnReports = <<Req("conn", ClaimedClass(failed, error))>>

\* ---- C9
Valid0(i) == remote0[i] # NoFile /\ Md5(remote0[i]) = ExpectedMd5(i)
PreCheckDone(i) == \E k \in CmdsWhere("md5", i) : cmds[k].res = "ok"

\* C9: an artifact whose remote file exists with the expected checksum is never
\* written by the transfer, its remote file stays as it was, and once its
\* checksum has been computed the loop is at a later artifact.
C9_ValidArtifactSkipped ==
  \A i \in 1..NArtifacts :
    Valid0(i) =>
      /\ Puts(i) = 0
      /\ remote[i] = remote0[i]
      /\ Md5s(i) <= 1
      /\ PreCheckDone(i) /\ sftp = "open" => idx > i

C9_Witness ==
  /\ entry = "f5_transfer" /\ pc = "returned" /\ NArtifacts = 2
  /\ Valid0(1) /\ PreCheckDone(1) /\ ~Valid0(2) /\ Puts(2) = 1

\* ---- C10
Absent0(i) == remote0[i] = NoFile
Processed(i) == sftp = "closed" \/ (sftp = "open" /\ idx > i)
PutReturned(i) == \E k \in CmdsWhere("put", i) : cmds[k].res = "ok"
TransferOps == {"stat", "md5", "put"}

\* C10: an artifact with no file at its remote path is written at most once
\* and its checksum computed at most once, only after the write; when the write
\* has returned the checksum is computed next, and when the loop has passed
\* the artifact there were exactly one write and one checksum.  The transfer's
\* operations follow the list order of the artifacts.
C10_AbsentArtifactWrittenOnce ==
  /\ \A i \in 1..NArtifacts :
       Absent0(i) =>
         /\ Puts(i) <= 1
         /\ Md5s(i) <= Puts(i)
         /\ \A p \in CmdsWhere("put", i), m \in CmdsWhere("md5", i) : p < m
         /\ PutReturned(i) /\ ~(pc = "copy_md5post" /\ idx = i) => Md5s(i) = 1
         /\ Processed(i) => Puts(i) = 1 /\ Md5s(i) = 1
  /\ \A k, l \in 1..Len(cmds) :
       k < l /\ cmds[k].op \in TransferOps /\ cmds[l].op \in TransferOps =>
         cmds[k].art <= cmds[l].art

C10_Witness ==
  /\ entry = "f5_transfer" /\ pc = "returned" /\ NArtifacts = 2
  /\ Absent0(1) /\ Absent0(2) /\ Puts(1) = 1 /\ Puts(2) = 1

\* ---- C11
\* The checksum computed after artifact i was written is not the expected one.
PostMismatch(i) ==
  /\ Md5(remote[i]) # ExpectedMd5(i)
  /\ \E p \in CmdsWhere("put", i), m \in CmdsWhere("md5", i) :
       p < m /\ cmds[p].res = "ok" /\ cmds[m].res = "ok"

MismatchErrors == {"ChecksumMismatchError", "AssertionError"}

\* C11: when the checksum computed after an artifact was written differs from
\* the expected one, the transfer has failed with a checksum-mismatch error for
\* that artifact, the artifact was written once, and no existence check, write
\* or checksum was issued for a later artifact.
C11_PostMismatchIsFatal ==
  \A i \in 1..NArtifacts :
    PostMismatch(i) =>
      /\ failed = "transfer"
      /\ error.kind \in MismatchErrors /\ error.art = i
      /\ Puts(i) = 1
      /\ \A k \in 1..Len(cmds) : cmds[k].op \in TransferOps => cmds[k].art <= i

\* ---- C12
StageOps == {"version", "slot", "install"}
StagingCmds == SelectSeq(cmds, LAMBDA c : c.op \in StageOps)
Installs == SelectSeq(cmds, LAMBDA c : c.op = "install")

\* Staging is the last phase called so far and its version query was answered.
InStaging ==
  /\ entry \in StageEntries /\ ~Invoked("activation")
  /\ StagingCmds # <<>> /\ StagingCmds[1].res \in Versions

StageReturned == InStaging /\ failed = "none" /\ pc = Return(AfterStage(ExecType))

\* C12: when the version query answered the target version, stage has returned
\* with that query as its only remote command: no slot query, no install,
\* whatever the artifact list.
C12_OnTargetOnlyVersionQuery ==
  InStaging /\ StagingCmds[1].res = device.target_version =>
    /\ Len(StagingCmds) = 1 /\ StagingCmds[1].op = "version"
    /\ StageReturned

C12_Witness ==
  /\ entry = "f5_stage" /\ pc = "returned" /\ NArtifacts = 2
  /\ Len(cmds) = 1 /\ cmds[1].op = "version" /\ cmds[1].res = device.target_version

\* ---- C13
\* C13: when the version query answered another version than the target, the
\* commands of stage are the version query, one slot query, and then install
\* commands for artifacts 1, 2, ... in list order, each naming the slot that
\* query returned; when stage has returned there is one install per artifact
\* (N + 2 commands).
C13_OneInstallPerArtifact ==
  InStaging /\ StagingCmds[1].res # device.target_version =>
    /\ StagingCmds[1].op = "version"
    /\ Len(StagingCmds) <= NArtifacts + 2
    /\ \A k \in 2..Len(StagingCmds) :
         IF k = 2 THEN StagingCmds[k].op = "slot"
         ELSE /\ StagingCmds[k].op = "install"
              /\ StagingCmds[k].art = k - 2
              /\ StagingCmds[k].vol = StagingCmds[2].res
    /\ StageReturned => Len(StagingCmds) = NArtifacts + 2

C13_Witness ==
  /\ entry = "f5_stage" /\ pc = "returned" /\ NArtifacts = 2
  /\ Len(cmds) = 4 /\ cmds[2].res = "HD1.2"
  /\ cmds[3].vol = "HD1.2" /\ cmds[4].vol = "HD1.2" /\ cmds[4].art = 2

\* ---- C14
\* C14: when an install command (to a slot the slot query named) finished with
\* a non-zero exit status, stage has failed with a staging error naming that
\* artifact and no install command was issued after it.
C14_NonZeroExitIsFatal ==
  \A k \in 1..Len(cmds) :
    cmds[k].op = "install" /\ cmds[k].vol # "" /\ cmds[k].res = "nonzero" =>
      /\ failed = "staging"
      /\ error = Exc("ImageStagingError", cmds[k].art)
      /\ \A l \in (k + 1)..Len(cmds) : cmds[l].op # "install"

\* ---- C15
\* C15: when the slot query of stage returned the empty string, stage has
\* failed with a staging error and no install command was issued.
C15_NoSlotIsFatal ==
  InStaging /\ Len(StagingCmds) >= 2 /\ StagingCmds[2].res = "" =>
    /\ failed = "staging" /\ error.kind = "ImageStagingError"
    /\ Installs = <<>>

\* ---- C16
\* C16: an install command is issued only when the exit status of every
\* earlier install command has arrived, and while the exit status of an
\* install command is outstanding stage has not returned: it is waiting for it.
C16_InstallsAwaited ==
  /\ \A k \in 1..Len(Installs) : k < Len(Installs) => Installs[k].res # "pending"
  /\ \A k \in 1..Len(cmds) : cmds[k].res = "pending" => pc = "stage_wait"

C16_Witness ==
  /\ entry = "f5_stage" /\ pc = "returned" /\ Len(Installs) = 2
  /\ Installs[1].res = "nonzero" /\ Installs[2].res = "exit0"

\* ---- C17
\* C17: upgrade_to_volume issues one remote command, the reboot to the volume
\* it was given, and returns; the exit status of the reboot command is never
\* read and no command, hence no version query, follows it.
C17_RebootFireAndForget ==
  /\ entry \in UpgradeCalls =>
       /\ Len(cmds) <= 1
       /\ pc = "returned" => Len(cmds) = 1 /\ cmds[1].res = "sent"
  /\ \A k \in 1..Len(cmds) :
       cmds[k].op = "reboot" =>
         /\ k = Len(cmds)
         /\ cmds[k].vol = volume
         /\ cmds[k].res \in {"sent", "raise"}
         /\ cmds[k].res = "sent" => pc = Return("done")

C17_Witness ==
  /\ entry = "f5_upgrade" /\ pc = "returned" /\ volume = "HD1.2"
  /\ Len(cmds) = 1 /\ cmds[1].op = "reboot" /\ cmds[1].vol = "HD1.2"

\* ---- C18
\* C18: in a run of main the command before the reboot is a slot query issued
\* by activation, after staging was called and after every command of
\* staging, and the reboot names the slot that query returned; an
\* image_upgrade run that returns from main has issued the reboot.
C18_RebootToRequeriedSlot ==
  entry = "f5_main" =>
    /\ \A k \in 1..Len(cmds) :
         cmds[k].op = "reboot" =>
           /\ k > 1 /\ cmds[k - 1].op = "slot"
           /\ cmds[k - 1].res = cmds[k].vol
           /\ Invoked("staging") /\ Invoked("activation")
           /\ \A l \in 1..(k - 2) : cmds[l].op \in StageOps => cmds[l].res # "pending"
           /\ \A l \in (k - 1)..Len(cmds) : cmds[l].op \notin {"version", "install"}
    /\ pc = "done" /\ device.execution_type = "image_upgrade" =>
         cmds # <<>> /\ cmds[Len(cmds)].op = "reboot"

C18_Witness ==
  /\ entry = "f5_main" /\ pc = "done" /\ Len(Installs) >= 1
  /\ Installs[1].vol = "HD1.1"
  /\ cmds[Len(cmds)].op = "reboot" /\ cmds[Len(cmds)].vol = "HD1.2"

\* ---- C19
PrevalSteps == <<"lookup", "connect", "disk">>
PrevalOps == {"test_dir", "df"}

\* Only pre-validation was performed: the steps called are the checks, in
\* order, and every remote operation issued is one of the disk check.
PrevalOnly ==
  /\ Len(phases) <= 3 /\ phases = SubSeq(PrevalSteps, 1, Len(phases))
  /\ \A k \in 1..Len(cmds) : cmds[k].op \in PrevalOps

\* C19: a dry_run run of main (execution_type dry_run, or none given) performs
\* only pre-validation: no transfer, staging or activation is called, no
\* write, install or reboot is issued, and main returns after the disk check.
C19_DryRunValidatesOnly ==
  entry \in Mains /\ ExecType = "dry_run" =>
    /\ PrevalOnly
    /\ pc = "done" => phases = PrevalSteps /\ Len(cmds) = 2

C19_Witness ==
  /\ entry \in Mains /\ device.execution_type = "dry_run" /\ pc = "done"
  /\ phases = PrevalSteps /\ Len(cmds) = 2

\* ---- C20
DefinedDepths == {"dry_run"} \cup CopyTypes

\* How a dry_run run of main ends, given whether a check failed.
DryRunEnd(f) == IF f = "none" THEN "done" ELSE "crashed"

MainPhases == {"transfer", "staging", "activation"}
InvokedPhases == {ph \in MainPhases : Invoked(ph)}

\* The phases of each depth the run modules know.
PhasesOf(t) ==
  CASE t = "image_copy" -> {"transfer"}
    [] t = "image_stage" -> {"transfer", "staging"}
    [] t = "image_upgrade" -> {"transfer", "staging", "activation"}
    [] OTHER -> {}

\* C21 (as claimed): a run of main with execution_type copy, stage or upgrade
\* that returns with no step failed has invoked transfer; transfer and
\* staging; transfer, staging and activation.
C21_ShortNamesRunPhases ==
  entry \in Mains /\ pc = "done" =>
    /\ device.execution_type = "copy" => InvokedPhases = {"transfer"}
    /\ device.execution_type = "stage" => InvokedPhases = {"transfer", "staging"}
    /\ device.execution_type = "upgrade" => InvokedPhases = MainPhases

\* C21 (amended): the depths are the values image_copy, image_stage and
\* image_upgrade: a run of main that returns with no step failed has invoked
\* exactly the phases of its depth, and none for any other value, the values
\* copy, stage and upgrade among them; no run invokes a phase outside its depth.
C21_ImageNamesRunPhases ==
  entry \in Mains =>
    /\ InvokedPhases \subseteq PhasesOf(ExecType)
    /\ pc = "done" => InvokedPhases = PhasesOf(ExecType)

C21_Witness ==
  /\ entry \in Mains /\ device.execution_type = "stage" /\ pc = "done"
  /\ InvokedPhases = {} /\ Len(cmds) = 2

\* ---- C22
DryRunSpellings == {"dry_run", "DRY_RUN"}
AfterInit == IF client.execution_log_id = Absent THEN <<>>
             ELSE <<Req("status", "inprogress")>>
Reports(call) == SelectSeq(tracker, LAMBDA r : r.call = call /\ r.val # "inprogress")

\* The terminal status a client with an execution_log_id has sent.
StatusSent(st) ==
  Reports("status") = IF client.execution_log_id = Absent THEN <<>>
                      ELSE <<Req("status", st)>>

\* C22: a call of resolve_execution never returns: with execution_type dry_run
\* in the client's device context, in either case, the process has exited with
\* code 0 and the status sent is completed; with any other or no
\* execution_type it has exited with code 1 and the status sent is failed.
C22_ResolveNeverReturns ==
  entry = "asdb_resolve" /\ pc \notin {"asdb_init", "asdb_resolve"} =>
    IF client.execution_type \in DryRunSpellings
    THEN pc = "exit0" /\ StatusSent("completed")
    ELSE pc = "exit1" /\ StatusSent("failed")

C22_Witness ==
  /\ entry = "asdb_resolve" /\ client.execution_type = "DRY_RUN" /\ pc = "exit0"
  /\ client.execution_log_id # Absent
  /\ Reports("status") = <<Req("status", "completed")>>

\* ---- C23
\* C23: an F5 run of main with execution_type dry_run in which a
\* pre-validation check failed has exited with code 0 and has not sent the
\* status failed.
C23_DryRunFailurePasses ==
  entry = "f5_main" /\ ExecType = "dry_run" /\ failed # "none" /\ Terminal =>
    pc = "exit0" /\ StatusReports("failed") = {}

\* ---- C24
\* C24: in a run of main, when the first step is called the tracker has
\* received the status inprogress, as its first request.
C24_InProgressAtStart ==
  entry \in Mains /\ phases # <<>> =>
    tracker # <<>> /\ tracker[1] = Req("status", "inprogress")

\* ---- C25
\* C25: a client whose device context has execution_type dry_run never posts a
\* device-history record; a client with any other execution_type has posted
\* exactly one when it has ended the process through the pass or the fail path.
C25_HistoryUnlessDryRun ==
  /\ client.execution_type = "dry_run" => Reports("history") = <<>>
  /\ client.execution_type # "dry_run" =>
       /\ Len(Reports("history")) <= 1
       /\ pc \in {"exit0", "exit1"} => Len(Reports("history")) = 1

C25_Witness ==
  /\ entry = "asdb_pass" /\ client.execution_type = "image_upgrade" /\ pc = "exit0"
  /\ Reports("history") = <<Req("history", "completed")>>

\* ---- C26
Count(seq, x) == Cardinality({k \in 1..Len(seq) : seq[k] = x})
OpCount(op) == Cardinality({k \in 1..Len(cmds) : cmds[k].op = op})
FailedResults == {"raise", "empty", "missing"}

\* C26: every step function is called at most once; at most one write and at
\* most one install command is issued per artifact, and at most one reboot
\* command; a command that failed is the last one issued.
C26_NothingRetried ==
  /\ \A k \in 1..Len(StepOrder) : Count(phases, StepOrder[k]) <= 1
  /\ \A i \in 1..MaxArtifacts :
       Puts(i) <= 1 /\ Cardinality(CmdsWhere("install", i)) <= 1
  /\ OpCount("reboot") <= 1
  /\ \A k \in 1..Len(cmds) : cmds[k].res \in FailedResults => k = Len(cmds)

C26_Witness ==
  /\ entry = "f5_main" /\ pc = "done" /\ NArtifacts = 2
  /\ Puts(1) = 1 /\ Puts(2) = 1 /\ Len(Installs) = 2 /\ OpCount("reboot") = 1
  /\ Installs[1].res = "nonzero"

\* ---- C27
\* C27: a software lookup that succeeds leaves in the device context the
\* catalog entry's target_version and artifact list, whatever the input had in
\* those fields, and nothing else changed; a lookup that fails, and every later
\* step, leaves the device context as it was.
C27_DeviceContextFrame ==
  [][ IF pc = "lookup" /\ failed' = "none"
      THEN device' = [execution_type |-> device.execution_type,
                      target_version |-> CatalogVersion(entry),
                      artifacts |-> ArtifactList(catalog),
                      remote_folder |-> CatalogFolder(entry)]
      ELSE device' = device
    ]_vars

C27_Witness ==
  /\ entry = "f5_main" /\ catalog = 2 /\ pc = "done"
  /\ Invoked("activation")
  /\ device.target_version = F5TargetVersion /\ device.artifacts = <<1, 2>>

\* ---- C28
\* C28: once the F5 software lookup has been called: if the model is not in
\* the matrix, or a local file of its entry is missing, it has failed with
\* SoftwareLookupException and the device context is the input; otherwise it
\* has not failed and the device context holds the entry's target version and
\* all its artifacts.
C28_LookupFailsOrReturnsEntry ==
  entry = "f5_main" /\ Invoked("lookup") =>
    IF ~env.in_matrix \/ (\E i \in 1..catalog : i \in env.missing)
    THEN /\ failed = "lookup" /\ error.kind = "SoftwareLookupException"
         /\ device.target_version \in {Absent, SuppliedVersion}
    ELSE /\ failed # "lookup"
         /\ device.target_version = F5TargetVersion
         /\ device.artifacts = ArtifactList(catalog)

C28_Witness ==
  /\ entry = "f5_main" /\ env.in_matrix /\ catalog = 2 /\ env.missing = {2}
  /\ failed = "lookup" /\ error.kind = "SoftwareLookupException"

\* ---- C29
\* C29: an F5 image_upgrade run in which transfer and staging returned goes on
\* to activation whether or not staging issued an install command; when it
\* has returned from main its last two commands are the slot query and the
\* reboot, also when the device answered the target version and nothing was
\* installed.
C29_RebootEvenWhenOnTarget ==
  entry = "f5_main" /\ device.execution_type = "image_upgrade" =>
    /\ pc = "done" =>
         /\ Len(cmds) >= 2
         /\ cmds[Len(cmds)].op = "reboot" /\ cmds[Len(cmds)].res = "sent"
         /\ cmds[Len(cmds) - 1].op = "slot"
    /\ Invoked("staging") /\ failed = "none" /\ pc \notin {"stage", "stage_slot",
          "stage_install", "stage_wait"} =>
         pc \in {"upgrade", "upgrade_reboot", "done"}

C29_Witness ==
  /\ entry = "f5_main" /\ device.execution_type = "image_upgrade" /\ pc = "done"
  /\ NArtifacts = 2 /\ Installs = <<>>
  /\ \E k \in 1..Len(cmds) : cmds[k].op = "version" /\ cmds[k].res = device.target_version
  /\ cmds[Len(cmds)].op = "reboot" /\ cmds[Len(cmds)].vol = "HD1.2"

\* ---- C30
\* C30: in a run of main no reboot command names an empty slot: when the slot
\* query of activation returned the empty string, activation has failed and
\* no reboot command was issued.
C30_NoRebootWithoutSlot ==
  entry = "f5_main" =>
    /\ \A k \in 1..Len(cmds) : cmds[k].op = "reboot" => cmds[k].vol \in Volumes \ {""}
    /\ Invoked("activation") /\ cmds[Len(cmds)].op = "slot" /\ cmds[Len(cmds)].res = "" =>
         failed = "activation"

\* ---- C31
\* The answers the device gave to the slot queries, in order.
SlotAnswers == SelectSeq(cmds, LAMBDA c : c.op = "slot" /\ c.res \in Volumes)

\* The slot marking of the device was the same at both slot queries: the
\* query, a function of the marking, answered the same twice.
SameMarking == Len(SlotAnswers) = 2 /\ SlotAnswers[1].res = SlotAnswers[2].res

\* C31: in an F5 run of main in which staging issued install commands and the
\* slot query of activation answered what the slot query of staging had
\* answered, the reboot command names the slot every install command names.
C31_RebootToInstallSlot ==
  entry = "f5_main" /\ Installs # <<>> /\ SameMarking =>
    \A r \in 1..Len(cmds) :
      cmds[r].op = "reboot" =>
        \A k \in 1..Len(Installs) : Installs[k].vol = cmds[r].vol

C31_Witness ==
  /\ entry = "f5_main" /\ pc = "done" /\ Len(Installs) = 2 /\ SameMarking
  /\ Installs[1].vol = "HD1.2" /\ Installs[2].vol = "HD1.2"
  /\ cmds[Len(cmds)].op = "reboot" /\ cmds[Len(cmds)].vol = "HD1.2"

\* ---- C32
\* sftp_copy_artifacts has returned normally: its last statement, sftp.close(),
\* was executed.
TransferReturned == Invoked("transfer") /\ sftp = "closed"

\* The most recent checksum computation for artifact i.
LastMd5(i) == CHOOSE k \in CmdsWhere("md5", i) : \A l \in CmdsWhere("md5", i) : l <= k

\* C32: when the transfer has returned normally, the remote checksum of every
\* artifact of the list was computed at least once during the call, and the
\* most recent one computed for it is the expected checksum.
C32_ReturnsOnlyVerified ==
  TransferReturned =>
    \A i \in 1..NArtifacts :
      /\ CmdsWhere("md5", i) # {}
      /\ cmds[LastMd5(i)].val = ExpectedMd5(i)

\* ---- C33
\* An operation of the call in progress raised or gave no output: the
\* connection or the device failed, not the transfer's logic.
OperationFailed == \E k \in 1..Len(cmds) : cmds[k].res \in {"raise", "empty"}

\* C33: a second call of the transfer for the same artifact list, after a
\* first one that returned normally and with the device's files as that call
\* left them, issues no write, does not fail unless one of its remote
\* operations does, and has skipped every artifact when it has returned.
C33_SecondTransferWritesNothing ==
  retry =>
    /\ remote = remote0
    /\ \A i \in 1..MaxArtifacts : Puts(i) = 0
    /\ failed # "none" => OperationFailed
    /\ pc = "returned" => \A i \in 1..NArtifacts : seen[i] = "match"

\* ---- C34
F5Transfers == {"f5_main", "f5_transfer"}

\* The transfer is past the write of artifact i.
PastPut(i) == ~(pc = "copy_put" /\ idx = i)

\* C34: in the F5 transfer, an artifact found at its remote path with another
\* checksum than the expected one is written once, the write following the
\* checksum computation with no error in between, and its checksum is
\* computed again once the write has returned; when the call has failed at
\* that artifact with every remote operation answered, it has failed on the
\* checksum computed after the write, which is not the expected one.
C34_MismatchedIsOverwritten ==
  entry \in F5Transfers =>
    \A i \in 1..NArtifacts :
      seen[i] = "mismatch" =>
        /\ Puts(i) <= 1
        /\ Puts(i) = 0 => failed = "none" /\ pc = "copy_put" /\ idx = i
        /\ PastPut(i) => Puts(i) = 1
        /\ \A p \in CmdsWhere("put", i) :
             /\ cmds[p - 1].op = "md5" /\ cmds[p - 1].art = i
             /\ cmds[p - 1].val # ExpectedMd5(i)
             /\ cmds[p].res = "ok" /\ ~(pc = "copy_md5post" /\ idx = i) =>
                  p < Len(cmds) /\ cmds[p + 1].op = "md5" /\ cmds[p + 1].art = i
        /\ failed = "transfer" /\ error.art = i /\ ~OperationFailed =>
             /\ error.kind = "AssertionError"
             /\ Md5s(i) = 2 /\ cmds[LastMd5(i)].val # ExpectedMd5(i)
             /\ \E p \in CmdsWhere("put", i) : p < LastMd5(i)

C34_Witness ==
  /\ entry = "f5_transfer" /\ ~retry /\ pc = "returned" /\ NArtifacts = 2
  /\ seen[1] = "mismatch" /\ Puts(1) = 1 /\ Md5s(1) = 2
  /\ cmds[LastMd5(1)].val = ExpectedMd5(1)

\* ---- C35
\* C35: in the transfer of swimlib.image_copy, an artifact found at its remote
\* path with another checksum than the expected one has made the call fail
\* with ChecksumMismatchError for that artifact, with no write for it and no
\* operation for any later artifact.
C35_MismatchedIsFatal ==
  entry = "top_transfer" =>
    \A i \in 1..NArtifacts :
      seen[i] = "mismatch" =>
        /\ pc = "raised" /\ failed = "transfer"
        /\ error = Exc("ChecksumMismatchError", i)
        /\ Puts(i) = 0
        /\ cmds[Len(cmds)].op = "md5" /\ cmds[Len(cmds)].art = i
        /\ \A k \in 1..Len(cmds) : cmds[k].art <= i

C35_Witness ==
  /\ entry = "top_transfer" /\ NArtifacts = 2 /\ seen[1] = "mismatch"
  /\ pc = "raised" /\ error = Exc("ChecksumMismatchError", 1)
  /\ Len(cmds) = 3 /\ remote[1] = Junk /\ sftp = "open"

\* ---- C36
\* Control is inside sftp_copy_artifacts.
CopyPcs == {"copy", "copy_stat", "copy_md5pre", "copy_put", "copy_md5post", "copy_close"}

\* The transfer failed on a checksum mismatch or on a write that raised.
MismatchOrWriteFailure ==
  /\ failed = "transfer"
  /\ \/ error.kind \in MismatchErrors
     \/ cmds[Len(cmds)].op = "put" /\ cmds[Len(cmds)].res = "raise"

\* C36: when sftp_copy_artifacts has been left, by return or by a checksum
\* mismatch or a write failure, the SFTP channel it opened is closed, by one
\* call of close.
C36_ChannelClosedAtExit ==
  sftp # "none" /\ pc \notin CopyPcs /\ (failed = "none" \/ MismatchOrWriteFailure) =>
    sftp = "closed" /\ OpCount("close_sftp") = 1

\* ---- C37
DiskCmds == SelectSeq(cmds, LAMBDA c : c.op \in PrevalOps)

\* The disk check was called and has been left.
DiskChecked == Invoked("disk") /\ pc # "disk_df"

\* The minimum the claim gives for the F5 workflow, and the NetScaler one.
ClaimedMinGb == IF entry = "f5_main" THEN 5 ELSE 3

\* C37: in a run of main the disk check has passed if and only if the folder
\* test answered that the folder exists and the free space df reported is at
\* least the minimum, the minimum itself included; on a missing folder it has
\* failed with the folder test as its only command; on an empty df output it
\* has failed; the folder tested is the remote folder of the device context,
\* the mount point is its first path component, and the F5 minimum is 5.
C37_DiskCheckPassesIff ==
  entry \in Mains /\ DiskChecked =>
    /\ failed # "disk" <=>
         /\ Len(DiskCmds) = 2
         /\ DiskCmds[1].res = "exists"
         /\ DiskCmds[2].res = "ok" /\ DiskCmds[2].val >= ClaimedMinGb
    /\ DiskCmds[1].op = "test_dir" /\ DiskCmds[1].vol = device.remote_folder
    /\ DiskCmds[1].res = "missing" => failed = "disk" /\ Len(DiskCmds) = 1
    /\ Len(DiskCmds) = 2 =>
         /\ DiskCmds[2].op = "df"
         /\ DiskCmds[2].vol = (IF entry = "f5_main" THEN "/shared" ELSE "/var")
         /\ DiskCmds[2].res = "empty" => failed = "disk"

C37_Witness ==
  /\ entry = "f5_main" /\ pc = "done" /\ failed = "none"
  /\ DiskCmds[1].vol = "/shared/images/"
  /\ DiskCmds[2].res = "ok" /\ DiskCmds[2].val = 5

\* ---- C38
\* The requests made since the client was built.
TerminalReports == SubSeq(tracker, Len(AfterInit) + 1, Len(tracker))

HasLogId == client.execution_log_id # Absent

\* Log entry, status, history record, in that order: the log entry for a
\* client with an execution_log_id, the history record unless the execution
\* type is dry_run, the status when `withStatus`.
ReportsInOrder(level, st, withStatus) ==
  (IF HasLogId THEN <<Req("log", level)>> ELSE <<>>)
    \o (IF withStatus THEN <<Req("status", st)>> ELSE <<>>)
    \o (IF client.execution_type = "dry_run" THEN <<>> ELSE <<Req("history", st)>>)

TrackerCalled == pc \notin {"asdb_init", "asdb_resolve", "asdb_pass", "asdb_fail"}

\* C38 (as claimed): fail_device_execution has made its requests in the order
\* log, status failed (with an execution_log_id only), history, and exited
\* with code 1; pass_device_execution has made them in the order log, the
\* status given, history, and exited with code 0.
C38_PassAlwaysSetsStatus ==
  /\ entry = "asdb_fail" /\ TrackerCalled =>
       pc = "exit1" /\ TerminalReports = ReportsInOrder("error", "failed", HasLogId)
  /\ entry = "asdb_pass" /\ TrackerCalled =>
       /\ pc = "exit0"
       /\ \E st \in PassStatuses : TerminalReports = ReportsInOrder("info", st, TRUE)

\* C38 (amended): as claimed, except that pass_device_execution, like
\* fail_device_execution, sets the status only for a client with an
\* execution_log_id.
C38_TerminalReportersInOrder ==
  /\ entry = "asdb_fail" /\ TrackerCalled =>
       pc = "exit1" /\ TerminalReports = ReportsInOrder("error", "failed", HasLogId)
  /\ entry = "asdb_pass" /\ TrackerCalled =>
       /\ pc = "exit0"
       /\ \E st \in PassStatuses : TerminalReports = ReportsInOrder("info", st, HasLogId)

C38_Witness ==
  /\ entry = "asdb_pass" /\ pc = "exit0" /\ HasLogId
  /\ client.execution_type = "image_upgrade"
  /\ tracker = <<Req("status", "inprogress"), Req("log", "info"),
                 Req("status", "dry_run_passed"), Req("history", "dry_run_passed")>>

\* ---- C39
\* C39: when every remote command and every tracker call returns, every run
\* and every direct call comes to an end: the end of main, an exit, a crash,
\* a return or an exception; and the remote commands issued are at most 8
\* plus 5 for each artifact of the catalog entry or of the list passed.
C39_TerminatesBounded ==
  /\ <>Finished
  /\ [](Len(cmds) <= 8 + 5 * catalog)

C39_Witness ==
  /\ entry = "f5_main" /\ pc = "done" /\ catalog = 2
  /\ device.execution_type = "image_upgrade" /\ Len(cmds) = 18
====
